---- MODULE Spec2Model ----
(***************************************************************************)
(* A model of the candle collector of candle_collector_debug.py:           *)
(* CandleCollector.collect_single_symbol and the threads that run it       *)
(* (worker_thread, fill_missing_data, a direct call), all of them over     *)
(* the one DatabaseManager connection the collector owns; continuous mode  *)
(* with its control loop, its stop and the exit of the process; the sweep  *)
(* of collect_all_tokens_single; and, each on its own, the retry loop of   *)
(* BinanceAPI._make_request and the statement of insert_candles.           *)
(*                                                                         *)
(* Time is counted in ticks of 12 hours, so that the interval '1d' of      *)
(* 86 400 000 ms is 2 ticks and "30 days" is 60 ticks.  An Optional[int]   *)
(* of the code is a set with at most one element: None is {} and v is {v}. *)
(***************************************************************************)
EXTENDS Integers, Sequences, FiniteSets, TLC

VARIABLES
  now,          \* the wall clock (time.time(), datetime.utcnow()), in ticks
  queue,        \* CandleCollector.task_queue
  th,           \* per thread: its position and the locals of the job it runs
  db,           \* the store: what is committed (durable)
  tx,           \* the store as the shared connection sees it: db plus its uncommitted writes
  faults,       \* upstream and store failures that may still be injected
  scheds,       \* runs of _schedule_collection so far
  calls,        \* entries of the main thread (fill_missing_data, direct call) so far
  fill,         \* fill_missing_data's locals: current_time, end_time
  failedSince,  \* history: per pair, runs that returned (0, error) since the last run that persisted rows
  okLast,       \* history: per pair, last_collected_time when the last successful run returned
  stop_event,   \* CandleCollector.stop_event
  ctl,          \* the control loop of continuous mode and stop_continuous_collection
  qids,         \* history: the number of each queued task, in the order of task_queue
  taken,        \* history: per task, how many times a worker got it from task_queue
  sweep,        \* collect_all_tokens_single's locals: position in tokens, symbols processed
  req,          \* BinanceAPI._make_request's locals, and what it has done so far
  table,        \* the rows of one pair in candles, with their content
  utc_offset,   \* the host's local time minus UTC, in ticks
  jobs,         \* the jobs registered with schedule, in the order of schedule.jobs
  cal           \* one series of the upstream: its last candles and the start derived

poolVars == <<stop_event, ctl, qids, taken>>
hostVars == <<utc_offset, jobs, cal>>
vars == <<now, queue, th, db, tx, faults, scheds, calls, fill, failedSince, okLast,
          poolVars, sweep, req, table, hostVars>>

---------------------------------------------------------------------------
(* Bounds of the model *)

MaxTicks == 2     \* the clock advances this many ticks
MaxFaults == 2    \* failures of the upstream or the store, one-shot modes
MaxPoolFaults == 1 \* failures of the upstream or the store, continuous mode
MaxSched == 2     \* runs of _schedule_collection
MaxCalls == 2     \* entries of the main thread
FillBatch == 1    \* the batch of 1000 candles of fill_missing_data, scaled down

Symbols == {"A", "B"}
Intervals == {"1d"}
(* an interval that is not a key of INTERVAL_MS *)
UnknownInterval == "2d"
Pairs == Symbols \X (Intervals \cup {UnknownInterval})
(* one thread more than num_workers *)
Workers_OneMore == {"w1", "w2", "w3"}

Workers == {"w1", "w2"}
Main == "main"
Runners == Workers \cup {Main}
FillDays == {2, 4}
NoTask == <<"-", "-">>

(* start_continuous_collection(intervals, num_workers): the threads it     *)
(* starts, in the order of self.worker_threads                             *)
num_workers == 2
WorkerList == <<"w1", "w2">>
(* task_queue.put(None): the signal for a worker to stop *)
Sentinel == <<"None", "None">>

---------------------------------------------------------------------------
(* Optional[int] and Python's truth value of it *)

None == {}
Some(v) == {v}
Val(o) == CHOOSE v \in o : TRUE
(* a test for None in place of the truth test *)
Truthy_NotNone(o) == o # {}
Truthy(o) == o # {} /\ o # {0}
OrZero(o) == IF Truthy(o) THEN Val(o) ELSE 0

Max(S) == CHOOSE x \in S : \A y \in S : y <= x
Min2(a, b) == IF a <= b THEN a ELSE b

---------------------------------------------------------------------------
(* CandleCollector.INTERVAL_MS, in ticks of 12 h *)

KnownIntervals == {"12h", "1d", "3d", "1w", "1M"}
INTERVAL_MS(interval) ==
  CASE interval = "12h" -> 1
    [] interval = "1d" -> 2
    [] interval = "3d" -> 6
    [] interval = "1w" -> 14
    [] interval = "1M" -> 60

(* self.INTERVAL_MS[interval], evaluated only where the cursor is truthy,   *)
(* raises KeyError for an interval that is not a key                       *)
KeyError(last_time, interval) == Truthy(last_time) /\ interval \notin KnownIntervals

ThirtyDays == 30 * 2
DayTicks(days) == days * 2

(* The upstream's series: the symbols were listed at FirstOpen; a candle   *)
(* opens every interval and closes one tick-unit before the next opens.    *)
FirstOpen == 50 * INTERVAL_MS("1d")
Now0 == FirstOpen + 2 * INTERVAL_MS("1d")
OpenTimes(interval) ==
  {o \in FirstOpen..(Now0 + MaxTicks) : (o - FirstOpen) % INTERVAL_MS(interval) = 0}
CloseTime(interval, open) == open + INTERVAL_MS(interval) - 1

FirstN(S, n) == {x \in S : Cardinality({y \in S : y < x}) < n}
LastN(S, n) == {x \in S : Cardinality({y \in S : y > x}) < n}

(* BinanceAPI.get_klines: startTime and endTime are sent only when truthy, *)
(* limit is capped at 1000; the upstream answers with the candles opened   *)
(* by time t in the window, the in-progress one included, oldest first.    *)
get_klines(interval, start_time, end_time, limit, t) ==
  LET inWindow == {o \in OpenTimes(interval) :
                     /\ o <= t
                     /\ (Truthy(start_time) => o >= Val(start_time))
                     /\ (Truthy(end_time) => o <= Val(end_time))}
      n == Min2(limit, 1000)
  IN IF Truthy(start_time) THEN FirstN(inWindow, n) ELSE LastN(inWindow, n)

(* The loop of collect_single_symbol that drops a row when kline[6] > now *)
FilterClosed(interval, klines, t) ==
  {o \in klines : ~(CloseTime(interval, o) > t)}

(* Window resolution of collect_single_symbol and worker_thread *)
ResolveStart_NoAdvance(last_time, interval, t) ==
  IF Truthy(last_time) THEN Val(last_time) ELSE t - ThirtyDays

(* datetime.utcnow() is a naive datetime holding the UTC wall clock, and   *)
(* timestamp() of a naive datetime reads it as the host's local time       *)
utcnow_timestamp(t) == t - utc_offset

ResolveStart(last_time, interval, t) ==
  IF Truthy(last_time) THEN Val(last_time) + INTERVAL_MS(interval)
  ELSE utcnow_timestamp(t) - ThirtyDays

---------------------------------------------------------------------------
(* The store, as one connection sees it *)

NoRows == [candles |-> [p \in Pairs |-> {}],
           control |-> [p \in Pairs |-> {}],
           logs |-> [r \in Runners |-> 0]]

get_last_collected_time(view, p) ==
  IF view.control[p] = {} THEN None ELSE Some(Val(view.control[p]).last)

get_last_candle_time(view, p) ==
  IF view.candles[p] = {} THEN None
  ELSE IF Max(view.candles[p]) = 0 THEN None ELSE Some(Max(view.candles[p]))

(* INSERT ... ON DUPLICATE KEY UPDATE of update_collection_control *)
update_collection_control(view, p, last_time, status, error_msg) ==
  LET new == IF view.control[p] = {}
             THEN [last |-> last_time, status |-> status,
                   error_count |-> IF status = "error" THEN 1 ELSE 0,
                   last_error |-> error_msg]
             ELSE [last |-> last_time, status |-> status,
                   error_count |-> IF status = "error"
                                   THEN Val(view.control[p]).error_count + 1 ELSE 0,
                   last_error |-> error_msg]
  IN [view EXCEPT !.control[p] = {new}]

(* INSERT IGNORE of insert_candles: rows already there are skipped *)
insert_candles(view, p, candles_data) ==
  [view EXCEPT !.candles[p] = @ \cup candles_data]
RowCount(view, p, candles_data) == Cardinality(candles_data \ view.candles[p])

(* INSERT of log_collection; the rows counted are those of r's current run *)
log_collection(view, r) == [view EXCEPT !.logs[r] = @ + 1]

---------------------------------------------------------------------------
(* BinanceAPI._make_request: BINANCE_CONFIG, and what one attempt can end in *)

max_retries == 3
retry_delay == 1

(* session.get raises Timeout or ConnectionError; raise_for_status raises  *)
(* HTTPError for a 4xx (429 is the rate limit) and a 5xx status;           *)
(* response.json() raises on a body that is not JSON.                      *)
Outcomes == {"ok", "timeout", "connection", "http_4xx", "http_429", "http_5xx", "decode"}

(* except requests.exceptions.RequestException: every error of requests is *)
(* one, HTTPError included; the error of response.json() is one where the  *)
(* installed requests raises requests.exceptions.JSONDecodeError, and a    *)
(* plain ValueError otherwise.                                             *)
IsRequestException(outcome, json_error_is_request_exception) ==
  \/ outcome \in {"timeout", "connection", "http_4xx", "http_429", "http_5xx"}
  \/ outcome = "decode" /\ json_error_is_request_exception

(* time.sleep(self.retry_delay * (attempt + 1)) *)
Backoff_Constant(attempt) == retry_delay

Backoff(attempt) == retry_delay * (attempt + 1)

NoRequest == [pc |-> "idle", attempt |-> 0, tried |-> <<>>, slept |-> <<>>,
              error |-> "none", json_error_is_request_exception |-> FALSE]

---------------------------------------------------------------------------
(* The statement of insert_candles, INSERT IGNORE INTO candles ... VALUES,  *)
(* on rows with their content.  A row is <<open_time, content>> of one     *)
(* (symbol, interval); the unique key of the table is the open_time.       *)

MaxBatch == 2     \* rows in one batch

Contents == {"x", "y"}
Rows == {FirstOpen, FirstOpen + INTERVAL_MS("1d")} \X Contents
RECURSIVE SeqsUpTo(_, _)
SeqsUpTo(S, n) ==
  IF n = 0 THEN {<<>>}
  ELSE SeqsUpTo(S, n - 1) \cup {Append(q, x) : q \in SeqsUpTo(S, n - 1), x \in S}
Batches == SeqsUpTo(Rows, MaxBatch) \ {<<>>}

HasKey(stored, row) == \E s \in stored : s[1] = row[1]

(* REPLACE INTO in the place of INSERT IGNORE INTO *)
RECURSIVE INSERT_REPLACE(_, _)
INSERT_REPLACE(stored, batch) ==
  IF batch = <<>> THEN stored
  ELSE INSERT_REPLACE({s \in stored : s[1] # Head(batch)[1]} \cup {Head(batch)}, Tail(batch))

RECURSIVE INSERT_IGNORE(_, _)
INSERT_IGNORE(stored, batch) ==
  IF batch = <<>> THEN stored
  ELSE INSERT_IGNORE(IF HasKey(stored, Head(batch)) THEN stored
                     ELSE stored \cup {Head(batch)}, Tail(batch))

(* return cursor.rowcount: the rows the statement inserted *)
rowcount(stored, batch) ==
  Cardinality(INSERT_IGNORE(stored, batch)) - Cardinality(stored)

NoTable == [rows |-> {}, before |-> {}, last |-> <<>>, count |-> 0, twice |-> FALSE]

---------------------------------------------------------------------------
(* Threads *)

Idle == [pc |-> "idle", task |-> NoTask, id |-> 0, start |-> None, end |-> None,
         limit |-> 0, kl |-> {}, cd |-> {}, inserted |-> 0, derived |-> FALSE,
         L |-> None, rnow |-> 0, fnow |-> 0, before |-> None, result |-> "none",
         err |-> "none", rej |-> FALSE, kind |-> "none", rows |-> 0]

NoFill == [cur |-> 0, end |-> 0, from |-> 0, n |-> 0, last_end |-> 0, contiguous |-> TRUE]

(* collect_all_tokens_single: tokens[i] is the token of the current turn;  *)
(* called are the symbols collect_single_symbol has been called for, and   *)
(* failures (history) counts its calls that returned a failure.            *)
NoSweep == [status |-> "none", i |-> 1, interval |-> "-", called |-> {},
            total_collected |-> 0, errors |-> 0, failures |-> 0]

(* main(): what collect_all_tokens_single and fill_missing_data return is  *)
(* dropped, an exception is logged by `except Exception`, and main returns *)
(* after its finally: the exit status of the process is 0, as it is with   *)
(* sys.exit(0) of signal_handler.                                          *)
exit_status(returned) == 0

(* A worker thread that has left worker_thread *)
Exited == [Idle EXCEPT !.pc = "exited"]

(* The tasks put on task_queue are numbered in the order of the puts *)
TaskIds == 1..(MaxSched * Cardinality(Symbols))

(* The control loop of start_continuous_collection is running; nothing of  *)
(* stop_continuous_collection has been logged                              *)
Running == [pc |-> "run", i |-> 1, signal |-> FALSE, abandoned |-> {}, log |-> <<>>,
            worker_threads |-> WorkerList, puts |-> 0, stops |-> 0]

(* A series of the upstream as the cursor follows it: the interval, the    *)
(* open_time of the last closed candle persisted (the cursor), that of the *)
(* candle after it, and the start derived from the cursor for the next job *)
NoSeries == [interval |-> "-", n |-> 0, last |-> 0, next |-> 0, start |-> 0]

(* The process at its start, on a host whose local time is offset from UTC *)
Host(budget, offset) ==
  /\ now = Now0
  /\ queue = <<>>
  /\ th = [r \in Runners |-> Idle]
  /\ db = NoRows
  /\ tx = NoRows
  /\ faults = budget
  /\ scheds = 0
  /\ calls = 0
  /\ fill = NoFill
  /\ failedSince = [p \in Pairs |-> 0]
  /\ okLast = [p \in Pairs |-> 0]
  /\ stop_event = FALSE
  /\ ctl = Running
  /\ qids = <<>>
  /\ taken = [k \in TaskIds |-> 0]
  /\ sweep = NoSweep
  /\ req = NoRequest
  /\ table = NoTable
  /\ utc_offset = offset
  /\ jobs = <<>>
  /\ cal = NoSeries

(* Local time minus UTC of the hosts considered, in ticks of 12 h *)
UtcOffsets == {-1, 0, 1}

(* The process at its start, on a host that keeps UTC *)
Start(budget) == Host(budget, 0)

Init == Start(MaxFaults)
PoolInit == Start(MaxPoolFaults)

Fault == faults > 0 /\ faults' = faults - 1

WorkersIdle == \A w \in Workers : th[w].pc = "idle"

(* Entering collect_single_symbol: the locals of the call, and the history *)
(* of the run (the durable cursor before it, its log rows counted from 0). *)
Call(r, p, start_time, end_time, limit, kind) ==
  [Idle EXCEPT !.pc = IF start_time = None THEN "resolve" ELSE "fetch",
               !.task = p, !.start = start_time, !.end = end_time,
               !.limit = limit, !.kind = kind,
               !.before = get_last_collected_time(db, p)]
ResetLogs(view, r) == [view EXCEPT !.logs[r] = 0]


Set(r, rec) == th' = [th EXCEPT ![r] = rec]
Interval(r) == th[r].task[2]

---------------------------------------------------------------------------
(* The clock *)

Tick ==
  /\ now < Now0 + MaxTicks
  /\ now' = now + 1
  /\ UNCHANGED <<queue, th, db, tx, faults, scheds, calls, fill, failedSince, okLast>>
  /\ UNCHANGED <<poolVars, sweep, req, table, hostVars>>

---------------------------------------------------------------------------
(* Continuous mode: the control loop of start_continuous_collection, which *)
(* runs _schedule_collection, and stop_continuous_collection               *)

ActiveTokens == <<"A", "B">>

(* A line of the log written by stop_continuous_collection *)
Logged(msg, worker) == [msg |-> msg, worker |-> worker]

(* logging.info("Parando coleta contínua..."); self.stop_event.set() *)
StopBegin(by_signal) ==
  /\ stop_event' = TRUE
  /\ ctl' = [ctl EXCEPT !.pc = "put", !.signal = by_signal, !.i = 1, !.stops = @ + 1,
                        !.log = Append(@, Logged("stopping", "-"))]

(* _schedule_collection(interval), run by schedule.run_pending() in the    *)
(* control loop: one task per active token, in symbol order                *)
_schedule_collection(interval) ==
  /\ scheds < MaxSched
  /\ ctl.pc = "run"
  /\ scheds' = scheds + 1
  /\ queue' = queue \o [i \in 1..Len(ActiveTokens) |-> <<ActiveTokens[i], interval>>]
  /\ qids' = qids \o [i \in 1..Len(ActiveTokens) |-> scheds * Len(ActiveTokens) + i]
  /\ UNCHANGED <<now, th, db, tx, faults, calls, fill, failedSince, okLast>>
  /\ UNCHANGED <<stop_event, ctl, taken, sweep, req, table, hostVars>>

(* SIGINT or SIGTERM while the control loop runs: signal_handler calls     *)
(* collector.stop_continuous_collection()                                  *)
signal_handler ==
  /\ ctl.pc = "run"
  /\ StopBegin(TRUE)
  /\ UNCHANGED <<now, queue, th, db, tx, faults, scheds, calls, fill, failedSince, okLast>>
  /\ UNCHANGED <<qids, taken, sweep, req, table, hostVars>>

(* for _ in self.worker_threads: self.task_queue.put(None) *)
StopPut ==
  /\ ctl.pc = "put"
  /\ queue' = queue \o [i \in 1..Len(ctl.worker_threads) |-> Sentinel]
  /\ qids' = qids \o [i \in 1..Len(ctl.worker_threads) |-> 0]
  /\ ctl' = [ctl EXCEPT !.pc = "join", !.puts = @ + Len(ctl.worker_threads)]
  /\ UNCHANGED <<now, th, db, tx, faults, scheds, calls, fill, failedSince, okLast>>
  /\ UNCHANGED <<stop_event, taken, sweep, req, table, hostVars>>

(* worker.join(timeout=5), worker after worker: it returns when the thread *)
(* has ended, or after 5 seconds with the thread still in its job (a       *)
(* request alone may take 30 seconds); nothing is tested and nothing is    *)
(* logged after it.  A thread waiting in get(timeout=1) is not waited for  *)
(* in vain: it gets its sentinel or sees stop_event within the second.     *)
StopJoin ==
  /\ ctl.pc = "join"
  /\ ctl.i <= Len(ctl.worker_threads)
  /\ LET w == ctl.worker_threads[ctl.i]
     IN \/ /\ th[w].pc = "exited"
           /\ ctl' = [ctl EXCEPT !.i = @ + 1]
        \/ /\ th[w].pc \notin {"exited", "idle"}
           /\ ctl' = [ctl EXCEPT !.i = @ + 1, !.abandoned = @ \cup {w}]
  /\ UNCHANGED <<now, queue, th, db, tx, faults, scheds, calls, fill, failedSince, okLast>>
  /\ UNCHANGED <<stop_event, qids, taken, sweep, req, table, hostVars>>

(* a stop that leaves worker_threads as it was *)
StopClear_Keep ==
  /\ ctl.pc = "join"
  /\ ctl.i > Len(ctl.worker_threads)
  /\ ctl' = [ctl EXCEPT !.pc = "stopped", !.log = Append(@, Logged("stopped", "-"))]
  /\ UNCHANGED <<now, queue, th, db, tx, faults, scheds, calls, fill, failedSince, okLast>>
  /\ UNCHANGED <<stop_event, qids, taken, sweep, req, table, hostVars>>

(* self.worker_threads.clear(); logging.info("Coleta contínua parada") *)
StopClear ==
  /\ ctl.pc = "join"
  /\ ctl.i > Len(ctl.worker_threads)
  /\ ctl' = [ctl EXCEPT !.pc = "stopped", !.worker_threads = <<>>,
                        !.log = Append(@, Logged("stopped", "-"))]
  /\ UNCHANGED <<now, queue, th, db, tx, faults, scheds, calls, fill, failedSince, okLast>>
  /\ UNCHANGED <<stop_event, qids, taken, sweep, req, table, hostVars>>

(* sys.exit(0) of signal_handler raises SystemExit in the control loop of  *)
(* start_continuous_collection, whose finally block calls                  *)
(* stop_continuous_collection once more.                                   *)
start_continuous_collection_finally ==
  /\ ctl.pc = "stopped"
  /\ ctl.signal
  /\ ctl.stops = 1
  /\ StopBegin(TRUE)
  /\ UNCHANGED <<now, queue, th, db, tx, faults, scheds, calls, fill, failedSince, okLast>>
  /\ UNCHANGED <<qids, taken, sweep, req, table, hostVars>>

(* sys.exit(0) of signal_handler, or main() returning with the error of    *)
(* the control loop: the process ends, and with it every worker thread     *)
(* still alive, wherever it is (worker.daemon = True).                     *)
Exit ==
  /\ ctl.pc = "stopped"
  /\ ctl' = [ctl EXCEPT !.pc = "exit"]
  /\ th' = [r \in Runners |->
              IF r \in Workers /\ th[r].pc # "exited"
              THEN IF th[r].pc = "idle" THEN Exited ELSE [th[r] EXCEPT !.pc = "aborted"]
              ELSE th[r]]
  /\ UNCHANGED <<now, queue, db, tx, faults, scheds, calls, fill, failedSince, okLast>>
  /\ UNCHANGED <<stop_event, qids, taken, sweep, req, table, hostVars>>

(* SystemExit leaves main() once the finally block has run *)
SystemExit == ctl.stops = 2 /\ Exit

---------------------------------------------------------------------------
(* worker_thread.  A worker at "idle" is in task_queue.get(timeout=1).      *)

(* a loop that does not test stop_event *)
NextTurn_Unchecked == Idle

(* while not self.stop_event.is_set(): the next turn of the loop *)
NextTurn == IF stop_event THEN Exited ELSE Idle

(* except Exception as e: logging.error(...); self.task_queue.task_done(), *)
(* and the loop goes on                                                    *)
Caught_Dies(w) == Exited

Caught(w) == NextTurn

(* task = self.task_queue.get(timeout=1); if task is None: break *)
WorkerGet_Peek(w) ==
  /\ th[w].pc = "idle"
  /\ th[Main].pc = "idle"
  /\ queue # <<>>
  /\ UNCHANGED <<queue, qids>>
  /\ IF Head(queue) = Sentinel
     THEN /\ Set(w, Exited)
          /\ UNCHANGED taken
     ELSE /\ Set(w, [Idle EXCEPT !.pc = "w_read", !.task = Head(queue), !.id = Head(qids)])
          /\ taken' = [taken EXCEPT ![Head(qids)] = @ + 1]
  /\ UNCHANGED <<now, db, tx, faults, scheds, calls, fill, failedSince, okLast>>
  /\ UNCHANGED <<stop_event, ctl, sweep, req, table, hostVars>>

(* a queue that gives its newest element *)
WorkerGet_Last(w) ==
  /\ th[w].pc = "idle"
  /\ th[Main].pc = "idle"
  /\ queue # <<>>
  /\ queue' = SubSeq(queue, 1, Len(queue) - 1)
  /\ qids' = SubSeq(qids, 1, Len(qids) - 1)
  /\ IF queue[Len(queue)] = Sentinel
     THEN /\ Set(w, Exited)
          /\ UNCHANGED taken
     ELSE /\ Set(w, [Idle EXCEPT !.pc = "w_read", !.task = queue[Len(queue)],
                                 !.id = qids[Len(qids)]])
          /\ taken' = [taken EXCEPT ![qids[Len(qids)]] = @ + 1]
  /\ UNCHANGED <<now, db, tx, faults, scheds, calls, fill, failedSince, okLast>>
  /\ UNCHANGED <<stop_event, ctl, sweep, req, table, hostVars>>

WorkerGet(w) ==
  /\ th[w].pc = "idle"
  /\ th[Main].pc = "idle"
  /\ queue # <<>>
  /\ queue' = Tail(queue)
  /\ qids' = Tail(qids)
  /\ IF Head(queue) = Sentinel
     THEN /\ Set(w, Exited)
          /\ UNCHANGED taken
     ELSE /\ Set(w, [Idle EXCEPT !.pc = "w_read", !.task = Head(queue), !.id = Head(qids)])
          /\ taken' = [taken EXCEPT ![Head(qids)] = @ + 1]
  /\ UNCHANGED <<now, db, tx, faults, scheds, calls, fill, failedSince, okLast>>
  /\ UNCHANGED <<stop_event, ctl, sweep, req, table, hostVars>>

(* except Empty: continue, and the loop ends when stop_event is set *)
WorkerEmpty(w) ==
  /\ th[w].pc = "idle"
  /\ queue = <<>>
  /\ stop_event
  /\ Set(w, Exited)
  /\ UNCHANGED <<now, queue, db, tx, faults, scheds, calls, fill, failedSince, okLast>>
  /\ UNCHANGED <<poolVars, sweep, req, table, hostVars>>

(* last_time = self.get_last_collected_time(...); start_time = ...; then   *)
(* the call of collect_single_symbol(symbol, interval, start_time, limit=100). *)
(* A store error here is caught by the worker's own handler: task_done().  *)
WorkerResolve(w) ==
  /\ th[w].pc = "w_read"
  /\ \/ /\ LET L == get_last_collected_time(tx, th[w].task)
               c == Call(w, th[w].task,
                         Some(ResolveStart(L, Interval(w), now)), None, 100, "worker")
           IN IF KeyError(L, Interval(w))
              THEN /\ Set(w, [th[w] EXCEPT !.pc = "w_except"])
                   /\ UNCHANGED <<db, tx>>
              ELSE /\ Set(w, [c EXCEPT !.derived = TRUE, !.L = L, !.rnow = now,
                                       !.id = th[w].id])
                   /\ db' = ResetLogs(db, w)
                   /\ tx' = ResetLogs(tx, w)
        /\ UNCHANGED faults
     \/ /\ Fault
        /\ tx' = db
        /\ Set(w, [th[w] EXCEPT !.pc = "w_except"])
        /\ UNCHANGED db
  /\ UNCHANGED <<now, queue, scheds, calls, fill, failedSince, okLast>>
  /\ UNCHANGED <<stop_event, ctl, qids, taken, sweep, req, table, hostVars>>

(* The handler of worker_thread, for an exception of the cursor read or of *)
(* collect_single_symbol                                                   *)
WorkerExcept(w) ==
  /\ th[w].pc = "w_except"
  /\ Set(w, Caught(w))
  /\ UNCHANGED <<now, queue, db, tx, faults, scheds, calls, fill, failedSince, okLast>>
  /\ UNCHANGED <<poolVars, sweep, req, table, hostVars>>

---------------------------------------------------------------------------
(* The main thread: fill_missing_data, and a direct call of                *)
(* collect_single_symbol with no start_time.  It runs between the jobs of  *)
(* the workers, never during one.                                          *)

fill_missing_data(symbol, interval, days_back) ==
  /\ th[Main].pc = "idle"
  /\ WorkersIdle
  /\ calls < MaxCalls
  /\ calls' = calls + 1
  /\ fill' = [NoFill EXCEPT !.cur = now - DayTicks(days_back), !.end = now,
                            !.from = now - DayTicks(days_back)]
  /\ Set(Main, [Idle EXCEPT !.pc = "f_loop", !.task = <<symbol, interval>>])
  /\ UNCHANGED <<now, queue, db, tx, faults, scheds, failedSince, okLast>>
  /\ UNCHANGED <<poolVars, sweep, req, table, hostVars>>

(* while current_time < end_time: batch_end = min(...); collect_single_symbol(...) *)
FillLoop ==
  /\ th[Main].pc = "f_loop"
  /\ IF fill.cur < fill.end
     THEN LET batch_end == Min2(fill.cur + FillBatch * INTERVAL_MS(Interval(Main)), fill.end)
          IN /\ Set(Main, Call(Main, th[Main].task, Some(fill.cur), Some(batch_end),
                               FillBatch, "fill"))
             /\ db' = ResetLogs(db, Main)
             /\ tx' = ResetLogs(tx, Main)
             /\ fill' = [fill EXCEPT
                           !.n = @ + 1, !.last_end = batch_end,
                           !.contiguous = @ /\ fill.cur = (IF fill.n = 0 THEN fill.from
                                                           ELSE fill.last_end)]
     ELSE /\ Set(Main, Idle)
          /\ fill' = NoFill
          /\ UNCHANGED <<db, tx>>
  /\ UNCHANGED <<now, queue, faults, scheds, calls, failedSince, okLast>>
  /\ UNCHANGED <<poolVars, sweep, req, table, hostVars>>

DirectCall(symbol, interval) ==
  /\ th[Main].pc = "idle"
  /\ WorkersIdle
  /\ calls < MaxCalls
  /\ calls' = calls + 1
  /\ Set(Main, Call(Main, <<symbol, interval>>, None, None, 1000, "direct"))
  /\ db' = ResetLogs(db, Main)
  /\ tx' = ResetLogs(tx, Main)
  /\ UNCHANGED <<now, queue, faults, scheds, fill, failedSince, okLast>>
  /\ UNCHANGED <<poolVars, sweep, req, table, hostVars>>

(* A call of collect_single_symbol(symbol, interval, start_time, end_time)  *)
(* with both ends of the window given, whatever their order                *)
WindowTimes == {FirstOpen, FirstOpen + INTERVAL_MS("1d")}
WindowCall(symbol, interval, start_time, end_time) ==
  /\ th[Main].pc = "idle"
  /\ WorkersIdle
  /\ calls < MaxCalls
  /\ calls' = calls + 1
  /\ Set(Main, Call(Main, <<symbol, interval>>, Some(start_time), Some(end_time),
                    1000, "direct"))
  /\ db' = ResetLogs(db, Main)
  /\ tx' = ResetLogs(tx, Main)
  /\ UNCHANGED <<now, queue, faults, scheds, fill, failedSince, okLast>>
  /\ UNCHANGED <<poolVars, sweep, req, table, hostVars>>

(* collect_all_tokens_single(interval, limit): tokens = get_active_tokens() *)
(* reads the store; an error of it leaves the function.                    *)
collect_all_tokens_single(interval) ==
  /\ th[Main].pc = "idle"
  /\ WorkersIdle
  /\ calls < MaxCalls
  /\ calls' = calls + 1
  /\ \/ /\ sweep' = [NoSweep EXCEPT !.status = "running", !.interval = interval]
        /\ Set(Main, [Idle EXCEPT !.pc = "s_loop"])
        /\ UNCHANGED <<tx, faults>>
     \/ /\ Fault
        /\ tx' = db
        /\ sweep' = [NoSweep EXCEPT !.status = "no tokens", !.interval = interval]
        /\ UNCHANGED th
  /\ UNCHANGED <<now, queue, db, scheds, fill, failedSince, okLast>>
  /\ UNCHANGED <<poolVars, req, table, hostVars>>

(* for token in tokens: the cursor is read and the start derived, outside  *)
(* any handler, then collect_single_symbol(symbol, interval, start_time,   *)
(* limit=100); after the last token the totals are returned.               *)
SweepLoop ==
  /\ th[Main].pc = "s_loop"
  /\ IF sweep.i <= Len(ActiveTokens)
     THEN LET p == <<ActiveTokens[sweep.i], sweep.interval>>
              L == get_last_collected_time(tx, p)
              c == Call(Main, p, Some(ResolveStart(L, sweep.interval, now)), None, 100, "sweep")
          IN \/ /\ IF KeyError(L, sweep.interval)
                   THEN /\ Set(Main, Idle)
                        /\ sweep' = [sweep EXCEPT !.status = "raised"]
                        /\ UNCHANGED <<db, tx>>
                   ELSE /\ Set(Main, [c EXCEPT !.derived = TRUE, !.L = L, !.rnow = now])
                        /\ db' = ResetLogs(db, Main)
                        /\ tx' = ResetLogs(tx, Main)
                        /\ sweep' = [sweep EXCEPT !.called = @ \cup {p[1]}]
                /\ UNCHANGED faults
             \/ /\ Fault
                /\ tx' = db
                /\ Set(Main, Idle)
                /\ sweep' = [sweep EXCEPT !.status = "raised"]
                /\ UNCHANGED db
     ELSE /\ Set(Main, Idle)
          /\ sweep' = [sweep EXCEPT !.status = "done"]
          /\ UNCHANGED <<db, tx, faults>>
  /\ UNCHANGED <<now, queue, scheds, calls, fill, failedSince, okLast>>
  /\ UNCHANGED <<poolVars, req, table, hostVars>>

---------------------------------------------------------------------------
(* collect_single_symbol, one action per statement that reads the clock,   *)
(* the upstream or the store.  A statement of the store either executes    *)
(* in the connection's transaction or raises MySQLError, and then          *)
(* execute_query / execute_many roll the connection back and re-raise.     *)

Raise(r, msg) == [th[r] EXCEPT !.pc = "e_log", !.err = msg]
Escape(r) == [th[r] EXCEPT !.pc = "ret", !.result = "raised"]

(* start_time is None: read the cursor and derive the start *)
Resolve(r) ==
  /\ th[r].pc = "resolve"
  /\ \/ /\ LET L == get_last_collected_time(tx, th[r].task)
           IN IF KeyError(L, Interval(r))
              THEN Set(r, Raise(r, "KeyError"))
              ELSE Set(r, [th[r] EXCEPT !.pc = "fetch", !.derived = TRUE, !.L = L, !.rnow = now,
                             !.start = Some(ResolveStart(L, Interval(r), now))])
        /\ UNCHANGED <<tx, faults>>
     \/ /\ Fault
        /\ tx' = db
        /\ Set(r, Raise(r, "store"))
  /\ UNCHANGED <<now, queue, db, scheds, calls, fill, failedSince, okLast>>
  /\ UNCHANGED <<poolVars, sweep, req, table, hostVars>>

(* an empty answer of the upstream taken for an error *)
Fetch_EmptyIsError(r) ==
  /\ th[r].pc = "fetch"
  /\ \/ /\ Interval(r) \in KnownIntervals
        /\ LET klines == get_klines(Interval(r), th[r].start, th[r].end, th[r].limit, now)
           IN IF klines = {}
              THEN Set(r, Raise(r, "fetch"))
              ELSE Set(r, [th[r] EXCEPT !.pc = "insert", !.kl = klines])
        /\ UNCHANGED faults
     \/ /\ Interval(r) \notin KnownIntervals
        /\ Set(r, Raise(r, "fetch"))
        /\ UNCHANGED faults
     \/ /\ Fault
        /\ Set(r, Raise(r, "fetch"))
  /\ UNCHANGED <<now, queue, db, tx, scheds, calls, fill, failedSince, okLast>>
  /\ UNCHANGED <<poolVars, sweep, req, table, hostVars>>

(* klines = self.api.get_klines(...); if not klines: return 0, "success".   *)
(* The upstream serves the intervals of INTERVALS ("suportados pela         *)
(* Binance"), the keys of INTERVAL_MS; a request for another interval is   *)
(* answered with an error, which _make_request raises.                     *)
Fetch(r) ==
  /\ th[r].pc = "fetch"
  /\ \/ /\ Interval(r) \in KnownIntervals
        /\ LET klines == get_klines(Interval(r), th[r].start, th[r].end, th[r].limit, now)
           IN IF klines = {}
              THEN Set(r, [th[r] EXCEPT !.pc = "ret", !.result = "success"])
              ELSE Set(r, [th[r] EXCEPT !.pc = "insert", !.kl = klines])
        /\ UNCHANGED faults
     \/ /\ Interval(r) \notin KnownIntervals
        /\ Set(r, Raise(r, "fetch"))
        /\ UNCHANGED faults
     \/ /\ Fault
        /\ Set(r, Raise(r, "fetch"))
  /\ UNCHANGED <<now, queue, db, tx, scheds, calls, fill, failedSince, okLast>>
  /\ UNCHANGED <<poolVars, sweep, req, table, hostVars>>

(* the filtering loop, then insert_candles: cursor.executemany *)
Insert(r) ==
  /\ th[r].pc = "insert"
  /\ LET candles_data == FilterClosed(Interval(r), th[r].kl, now)
         me == [th[r] EXCEPT !.kl = {}, !.cd = candles_data, !.fnow = now]
     IN IF candles_data = {}
        THEN /\ Set(r, [me EXCEPT !.pc = "log"])
             /\ UNCHANGED <<tx, faults>>
        ELSE \/ /\ tx' = insert_candles(tx, th[r].task, candles_data)
                /\ Set(r, [me EXCEPT !.pc = "ins_commit",
                                     !.inserted = RowCount(tx, th[r].task, candles_data)])
                /\ UNCHANGED faults
             \/ /\ Fault
                /\ tx' = db
                /\ Set(r, [me EXCEPT !.pc = "e_log", !.err = "store", !.rej = TRUE])
  /\ UNCHANGED <<now, queue, db, scheds, calls, fill, failedSince, okLast>>
  /\ UNCHANGED <<poolVars, sweep, req, table, hostVars>>

(* insert_candles: self.connection.commit().  rows counts the rows the     *)
(* executemany of this run inserted that are in the store when the commit  *)
(* returns (a rollback on the shared connection may have discarded them).  *)
InsertCommit(r) ==
  /\ th[r].pc = "ins_commit"
  /\ db' = tx
  /\ Set(r, [th[r] EXCEPT !.pc = "upd",
                          !.rows = Min2(th[r].inserted,
                                        Cardinality(th[r].cd \cap tx.candles[th[r].task]))])
  /\ failedSince' = [failedSince EXCEPT ![th[r].task] = 0]
  /\ UNCHANGED <<now, queue, tx, faults, scheds, calls, fill, okLast>>
  /\ UNCHANGED <<poolVars, sweep, req, table, hostVars>>

(* update_collection_control(symbol, interval, max(open_time)): cursor.execute *)
Update(r) ==
  /\ th[r].pc = "upd"
  /\ \/ /\ tx' = update_collection_control(tx, th[r].task, Max(th[r].cd), "active", "none")
        /\ Set(r, [th[r] EXCEPT !.pc = "upd_commit"])
        /\ UNCHANGED faults
     \/ /\ Fault
        /\ tx' = db
        /\ Set(r, Raise(r, "store"))
  /\ UNCHANGED <<now, queue, db, scheds, calls, fill, failedSince, okLast>>
  /\ UNCHANGED <<poolVars, sweep, req, table, hostVars>>

UpdateCommit(r) ==
  /\ th[r].pc = "upd_commit"
  /\ db' = tx
  /\ Set(r, [th[r] EXCEPT !.pc = "log"])
  /\ UNCHANGED <<now, queue, tx, faults, scheds, calls, fill, failedSince, okLast>>
  /\ UNCHANGED <<poolVars, sweep, req, table, hostVars>>

(* The collection_type both calls of log_collection pass, whoever called   *)
(* collect_single_symbol: log_collection(symbol, interval, 'single', ...)  *)
collection_type(r) == "single"

(* log_collection(..., inserted, 'success', ...): cursor.execute *)
Log(r) ==
  /\ th[r].pc = "log"
  /\ \/ /\ tx' = log_collection(tx, r)
        /\ Set(r, [th[r] EXCEPT !.pc = "log_commit"])
        /\ UNCHANGED faults
     \/ /\ Fault
        /\ tx' = db
        /\ Set(r, Raise(r, "store"))
  /\ UNCHANGED <<now, queue, db, scheds, calls, fill, failedSince, okLast>>
  /\ UNCHANGED <<poolVars, sweep, req, table, hostVars>>

(* commit, then return inserted, "success" *)
LogCommit(r) ==
  /\ th[r].pc = "log_commit"
  /\ db' = tx
  /\ Set(r, [th[r] EXCEPT !.pc = "ret", !.result = "success"])
  /\ UNCHANGED <<now, queue, tx, faults, scheds, calls, fill, failedSince, okLast>>
  /\ UNCHANGED <<poolVars, sweep, req, table, hostVars>>

(* except Exception: log_collection(..., 0, 'error', error_msg, ...).  An   *)
(* error raised inside the handler leaves collect_single_symbol.           *)
ErrLog(r) ==
  /\ th[r].pc = "e_log"
  /\ \/ /\ tx' = log_collection(tx, r)
        /\ Set(r, [th[r] EXCEPT !.pc = "e_log_commit"])
        /\ UNCHANGED faults
     \/ /\ Fault
        /\ tx' = db
        /\ Set(r, Escape(r))
  /\ UNCHANGED <<now, queue, db, scheds, calls, fill, failedSince, okLast>>
  /\ UNCHANGED <<poolVars, sweep, req, table, hostVars>>

ErrLogCommit(r) ==
  /\ th[r].pc = "e_log_commit"
  /\ db' = tx
  /\ Set(r, [th[r] EXCEPT !.pc = "e_read"])
  /\ UNCHANGED <<now, queue, tx, faults, scheds, calls, fill, failedSince, okLast>>
  /\ UNCHANGED <<poolVars, sweep, req, table, hostVars>>

(* last_time = self.get_last_candle_time(symbol, interval) or 0 *)
ErrRead(r) ==
  /\ th[r].pc = "e_read"
  /\ \/ /\ Set(r, [th[r] EXCEPT !.pc = "e_upd",
                               !.inserted = OrZero(get_last_candle_time(tx, th[r].task))])
        /\ UNCHANGED <<tx, faults>>
     \/ /\ Fault
        /\ tx' = db
        /\ Set(r, Escape(r))
  /\ UNCHANGED <<now, queue, db, scheds, calls, fill, failedSince, okLast>>
  /\ UNCHANGED <<poolVars, sweep, req, table, hostVars>>

(* update_collection_control(symbol, interval, last_time, 'error', error_msg) *)
ErrUpdate(r) ==
  /\ th[r].pc = "e_upd"
  /\ \/ /\ tx' = update_collection_control(tx, th[r].task, th[r].inserted, "error", th[r].err)
        /\ Set(r, [th[r] EXCEPT !.pc = "e_upd_commit"])
        /\ UNCHANGED faults
     \/ /\ Fault
        /\ tx' = db
        /\ Set(r, Escape(r))
  /\ UNCHANGED <<now, queue, db, scheds, calls, fill, failedSince, okLast>>
  /\ UNCHANGED <<poolVars, sweep, req, table, hostVars>>

(* commit, then return 0, error_msg *)
ErrUpdateCommit(r) ==
  /\ th[r].pc = "e_upd_commit"
  /\ db' = tx
  /\ Set(r, [th[r] EXCEPT !.pc = "ret", !.result = "error", !.inserted = 0])
  /\ UNCHANGED <<now, queue, tx, faults, scheds, calls, fill, failedSince, okLast>>
  /\ UNCHANGED <<poolVars, sweep, req, table, hostVars>>

(* current_time = batch_end *)
NextWindow(r) == Val(th[r].end)

(* The call is over.  The worker marks the task done and takes the next    *)
(* turn of its loop; an exception that left collect_single_symbol is       *)
(* caught by the worker's handler.  fill_missing_data moves its window to  *)
(* batch_end and collect_all_tokens_single goes to the next token; an      *)
(* exception that left collect_single_symbol ends either of them.          *)
Return(r) ==
  /\ th[r].pc = "ret"
  /\ LET p == th[r].task
     IN /\ failedSince' = [failedSince EXCEPT
                             ![p] = IF th[r].result = "error" THEN @ + 1 ELSE @]
        /\ okLast' = [okLast EXCEPT
                        ![p] = IF th[r].result = "success"
                               THEN OrZero(get_last_collected_time(db, p)) ELSE @]
  /\ IF r \in Workers
     THEN /\ Set(r, IF th[r].result = "raised"
                    THEN [Idle EXCEPT !.pc = "w_except", !.task = th[r].task, !.id = th[r].id]
                    ELSE NextTurn)
          /\ UNCHANGED <<fill, sweep>>
     ELSE IF th[r].result = "raised"
          THEN /\ Set(r, Idle)
               /\ fill' = NoFill
               /\ sweep' = IF th[r].kind = "sweep"
                           THEN [sweep EXCEPT !.status = "raised"] ELSE sweep
          ELSE CASE th[r].kind = "fill" ->
                      /\ fill' = [fill EXCEPT !.cur = NextWindow(r)]
                      /\ Set(r, [Idle EXCEPT !.pc = "f_loop", !.task = th[r].task])
                      /\ UNCHANGED sweep
                 [] th[r].kind = "sweep" ->
                      /\ sweep' = [sweep EXCEPT
                                     !.i = @ + 1,
                                     !.total_collected = @ + th[r].inserted,
                                     !.errors = IF th[r].result # "success" THEN @ + 1 ELSE @,
                                     !.failures = IF th[r].result = "error"
                                                  THEN @ + 1 ELSE @]
                      /\ Set(r, [Idle EXCEPT !.pc = "s_loop", !.task = th[r].task])
                      /\ UNCHANGED fill
                 [] OTHER ->
                      /\ Set(r, Idle)
                      /\ fill' = NoFill
                      /\ UNCHANGED sweep
  /\ UNCHANGED <<now, queue, db, tx, faults, scheds, calls>>
  /\ UNCHANGED <<stop_event, ctl, qids, taken, req, table, hostVars>>

Body(r) ==
  \/ Fetch(r) \/ Insert(r) \/ InsertCommit(r)
  \/ Update(r) \/ UpdateCommit(r) \/ Log(r) \/ LogCommit(r)
  \/ ErrLog(r) \/ ErrLogCommit(r) \/ ErrRead(r) \/ ErrUpdate(r) \/ ErrUpdateCommit(r)
  \/ Return(r)

collect_single_symbol(r) == Resolve(r) \/ Body(r)

---------------------------------------------------------------------------
(* The one-shot modes of main(): the main thread alone runs the jobs *)

Next ==
  \/ Tick
  \/ \E s \in Symbols, i \in Intervals, d \in FillDays : fill_missing_data(s, i, d)
  \/ FillLoop
  \/ \E s \in Symbols, i \in Intervals : DirectCall(s, i)
  \/ collect_single_symbol(Main)

Spec == Init /\ [][Next]_vars

(* The same modes with one failure of the upstream or the store at most *)
SpecOneFailure == Start(1) /\ [][Next]_vars

(* Continuous mode: the control loop enqueues, the workers run the jobs    *)
(* (worker_thread always passes a start_time, so Resolve never runs there) *)
(* The jobs considered run within one tick of the clock.                   *)

PoolNext ==
  \/ \E i \in Intervals : _schedule_collection(i)
  \/ \E w \in Workers : WorkerGet(w)
  \/ \E w \in Workers : WorkerResolve(w)
  \/ \E w \in Workers : WorkerExcept(w)
  \/ \E w \in Workers : Body(w)

SpecPool == PoolInit /\ [][PoolNext]_vars

(* Continuous mode from its start to the end of the process, with the      *)
(* store and the upstream answering: the control loop, the workers, the    *)
(* stop signal, stop_continuous_collection and the exit.                   *)

StopNext ==
  \/ \E i \in Intervals : _schedule_collection(i)
  \/ signal_handler
  \/ StopPut
  \/ StopJoin
  \/ StopClear
  \/ Exit
  \/ \E w \in Workers : WorkerGet(w)
  \/ \E w \in Workers : WorkerEmpty(w)
  \/ \E w \in Workers : WorkerResolve(w)
  \/ \E w \in Workers : Fetch(w) \/ Insert(w) \/ InsertCommit(w) \/ Update(w)
                           \/ UpdateCommit(w) \/ Log(w) \/ LogCommit(w) \/ Return(w)

SpecStop == Start(0) /\ [][StopNext]_vars

(* The same, with the second call of stop_continuous_collection that the   *)
(* finally block of start_continuous_collection makes before the exit.     *)
TwiceNext ==
  \/ \E i \in Intervals : _schedule_collection(i)
  \/ signal_handler
  \/ StopPut
  \/ StopJoin
  \/ StopClear
  \/ start_continuous_collection_finally
  \/ SystemExit
  \/ \E w \in Workers : WorkerGet(w)
  \/ \E w \in Workers : WorkerEmpty(w)
  \/ \E w \in Workers : WorkerResolve(w)
  \/ \E w \in Workers : Fetch(w) \/ Insert(w) \/ InsertCommit(w) \/ Update(w)
                           \/ UpdateCommit(w) \/ Log(w) \/ LogCommit(w) \/ Return(w)

SpecTwice == Start(0) /\ [][TwiceNext]_vars

(* Continuous mode up to the return of stop_continuous_collection, the     *)
(* process not exiting.  Every thread that can take a step takes one in    *)
(* the end: a worker in its loop or in its job (the store and the upstream *)
(* answer), and the thread in stop_continuous_collection, whose joins are  *)
(* bounded by their timeout.  Nothing obliges the scheduler to run or a    *)
(* signal to arrive.                                                       *)

WorkerStep(w) ==
  \/ WorkerGet(w) \/ WorkerEmpty(w) \/ WorkerResolve(w)
  \/ Fetch(w) \/ Insert(w) \/ InsertCommit(w) \/ Update(w)
  \/ UpdateCommit(w) \/ Log(w) \/ LogCommit(w) \/ Return(w)

StopStep == StopPut \/ StopJoin \/ StopClear

LiveNext ==
  \/ \E i \in Intervals : _schedule_collection(i)
  \/ signal_handler
  \/ StopPut
  \/ StopJoin
  \/ StopClear
  \/ \E w \in Workers : WorkerGet(w)
  \/ \E w \in Workers : WorkerEmpty(w)
  \/ \E w \in Workers : WorkerResolve(w)
  \/ \E w \in Workers : Fetch(w) \/ Insert(w) \/ InsertCommit(w) \/ Update(w)
                           \/ UpdateCommit(w) \/ Log(w) \/ LogCommit(w) \/ Return(w)

SpecLive ==
  /\ Start(0)
  /\ [][LiveNext]_vars
  /\ \A w \in Workers : WF_vars(WorkerStep(w))
  /\ WF_vars(StopStep)

(* Continuous mode with no stop asked for, the store and the upstream      *)
(* answering: the control loop enqueues and every worker that can take a   *)
(* step takes one in the end.                                              *)

QueueNext ==
  \/ \E i \in Intervals : _schedule_collection(i)
  \/ \E w \in Workers : WorkerGet(w)
  \/ \E w \in Workers : WorkerResolve(w)
  \/ \E w \in Workers : Fetch(w) \/ Insert(w) \/ InsertCommit(w) \/ Update(w)
                           \/ UpdateCommit(w) \/ Log(w) \/ LogCommit(w) \/ Return(w)

SpecQueue ==
  /\ Start(0)
  /\ [][QueueNext]_vars
  /\ \A w \in Workers : WF_vars(WorkerStep(w))

(* The mode 'fill' of main(): fill_missing_data, for any days_back, the    *)
(* main thread taking its next step in the end (the store and the upstream *)
(* answer or fail, within their timeouts)                                  *)

FillNext ==
  \/ \E s \in Symbols, i \in Intervals, d \in FillDays \cup {0} : fill_missing_data(s, i, d)
  \/ FillLoop
  \/ Body(Main)

SpecFill ==
  /\ Init
  /\ [][FillNext]_vars
  /\ WF_vars(FillLoop \/ Body(Main))

(* The mode 'single' of main(): sweeps of collect_all_tokens_single *)

SweepNext ==
  \/ \E i \in Intervals : collect_all_tokens_single(i)
  \/ SweepLoop
  \/ Body(Main)

SpecSweep == Init /\ [][SweepNext]_vars

(* First runs on hosts of any time zone, the store and the upstream         *)
(* answering: a direct call, a sweep and the workers                       *)

BootInit == \E offset \in UtcOffsets : Host(0, offset)

BootNext ==
  \/ \E s \in Symbols, i \in Intervals : DirectCall(s, i)
  \/ Resolve(Main)
  \/ \E i \in Intervals : collect_all_tokens_single(i)
  \/ SweepLoop
  \/ \E i \in Intervals : _schedule_collection(i)
  \/ \E w \in Workers : WorkerGet(w)
  \/ \E w \in Workers : WorkerResolve(w)
  \/ \E r \in Runners : Fetch(r) \/ Insert(r) \/ InsertCommit(r) \/ Update(r)
                           \/ UpdateCommit(r) \/ Log(r) \/ LogCommit(r) \/ Return(r)

SpecBoot == BootInit /\ [][BootNext]_vars

(* Continuous mode with one worker thread, on hosts in several time zones, *)
(* with one failure of the store or of the upstream: the jobs of a pair    *)
(* run one after another, time passing between them.                       *)
RecoverInit == \E offset \in UtcOffsets : Host(1, offset)

RecoverNext ==
  \/ Tick
  \/ \E i \in Intervals : _schedule_collection(i)
  \/ WorkerGet(WorkerList[1])
  \/ WorkerResolve(WorkerList[1])
  \/ WorkerExcept(WorkerList[1])
  \/ Body(WorkerList[1])

SpecRecover == RecoverInit /\ [][RecoverNext]_vars

(* Direct calls of collect_single_symbol with an explicit window *)

WindowNext ==
  \/ \E s \in Symbols, i \in Intervals, a \in WindowTimes, b \in WindowTimes :
        WindowCall(s, i, a, b)
  \/ Body(Main)

SpecWindow == Init /\ [][WindowNext]_vars

(* Jobs for an interval that is not a key of INTERVAL_MS, by a direct      *)
(* call, by a sweep and by the workers, the store answering                *)

UnknownNext ==
  \/ \E s \in Symbols : DirectCall(s, UnknownInterval)
  \/ collect_all_tokens_single(UnknownInterval)
  \/ SweepLoop
  \/ _schedule_collection(UnknownInterval)
  \/ \E w \in Workers : WorkerGet(w)
  \/ \E w \in Workers : WorkerResolve(w)
  \/ Resolve(Main)
  \/ \E r \in Runners : Fetch(r) \/ ErrLog(r) \/ ErrLogCommit(r) \/ ErrRead(r)
                           \/ ErrUpdate(r) \/ ErrUpdateCommit(r) \/ Return(r)

SpecUnknown == Start(0) /\ [][UnknownNext]_vars

---------------------------------------------------------------------------
(* The jobs start_continuous_collection registers with schedule            *)

MaxIntervals == 2   \* intervals given to start_continuous_collection

INTERVALS == {"1m", "3m", "5m", "15m", "30m", "1h", "2h", "4h", "6h", "8h", "12h",
              "1d", "3d", "1w", "1M"}

_get_schedule_interval(interval) ==
  IF interval \in {"1m", "3m", "5m"} THEN 5
  ELSE IF interval \in {"15m", "30m"} THEN 15
  ELSE IF interval \in {"1h", "2h"} THEN 60
  ELSE 240

(* schedule.every(n).do(self._schedule_collection, interval): a job every  *)
(* n, with no unit of time chosen (.minutes is not written)                *)
Job(interval) ==
  [interval |-> interval, every |-> _get_schedule_interval(interval), unit |-> "none"]

(* for interval in intervals: schedule.every(...).do(...) *)
RegisterJobs(intervals) ==
  /\ jobs = <<>>
  /\ jobs' = [k \in 1..Len(intervals) |-> Job(intervals[k])]
  /\ UNCHANGED <<now, queue, th, db, tx, faults, scheds, calls, fill, failedSince, okLast>>
  /\ UNCHANGED <<poolVars, sweep, req, table, utc_offset, cal>>

CadenceNext ==
  \E intervals \in SeqsUpTo(INTERVALS, MaxIntervals) \ {<<>>} : RegisterJobs(intervals)

SpecCadence == Start(0) /\ [][CadenceNext]_vars

---------------------------------------------------------------------------
(* The start derived from the cursor, candle after candle of one series.   *)
(* The candles of '12h', '1d', '3d' and '1w' are as wide as INTERVAL_MS    *)
(* says; those of '1M' are calendar months, of 28 to 31 days.              *)

MaxCandles == 5   \* candles of the series followed

Widths(interval) ==
  IF interval = "1M" THEN {DayTicks(28), DayTicks(29), DayTicks(30), DayTicks(31)}
  ELSE {INTERVAL_MS(interval)}

(* A job has persisted the candle opened at cal.next (at FirstOpen, for    *)
(* the first) and set the cursor on it; the candle now closed is width     *)
(* wide; the next job derives its start: last_time + INTERVAL_MS[interval] *)
NextCandle(interval, width) ==
  /\ cal.n < MaxCandles
  /\ cal.interval \in {"-", interval}
  /\ LET last == IF cal.n = 0 THEN FirstOpen ELSE cal.next
     IN cal' = [interval |-> interval, n |-> cal.n + 1, last |-> last,
                next |-> last + width,
                start |-> ResolveStart(Some(last), interval, last + width)]
  /\ UNCHANGED <<now, queue, th, db, tx, faults, scheds, calls, fill, failedSince, okLast>>
  /\ UNCHANGED <<poolVars, sweep, req, table, utc_offset, jobs>>

SeriesNext ==
  \E i \in KnownIntervals : \E width \in Widths(i) : NextCandle(i, width)

SpecSeries == Start(0) /\ [][SeriesNext]_vars

---------------------------------------------------------------------------
(* BinanceAPI._make_request on its own: one request, whose attempts end    *)
(* each in one of Outcomes                                                 *)

_make_request(json_error_is_request_exception) ==
  /\ req.pc = "idle"
  /\ req' = [NoRequest EXCEPT !.pc = "attempt",
                !.json_error_is_request_exception = json_error_is_request_exception]
  /\ UNCHANGED <<now, queue, th, db, tx, faults, scheds, calls, fill, failedSince, okLast>>
  /\ UNCHANGED <<poolVars, sweep, table, hostVars>>

(* One turn of for attempt in range(self.max_retries): the request, then   *)
(* return response.json(), or the handler, which sleeps before the next    *)
(* attempt or, at the last attempt, raises; an error that is no            *)
(* RequestException leaves the function at once.                           *)
Attempt(outcome) ==
  /\ req.pc = "attempt"
  /\ req.attempt < max_retries
  /\ LET me == [req EXCEPT !.tried = Append(@, outcome)]
     IN req' = IF outcome = "ok" THEN [me EXCEPT !.pc = "returned"]
               ELSE IF ~IsRequestException(outcome, req.json_error_is_request_exception)
                    THEN [me EXCEPT !.pc = "raised", !.error = outcome]
               ELSE IF req.attempt < max_retries - 1
                    THEN [me EXCEPT !.pc = "sleep"]
               ELSE [me EXCEPT !.pc = "raised", !.error = outcome]
  /\ UNCHANGED <<now, queue, th, db, tx, faults, scheds, calls, fill, failedSince, okLast>>
  /\ UNCHANGED <<poolVars, sweep, table, hostVars>>

Sleep ==
  /\ req.pc = "sleep"
  /\ req' = [req EXCEPT !.pc = "attempt", !.attempt = @ + 1,
                        !.slept = Append(@, Backoff(req.attempt))]
  /\ UNCHANGED <<now, queue, th, db, tx, faults, scheds, calls, fill, failedSince, okLast>>
  /\ UNCHANGED <<poolVars, sweep, table, hostVars>>

RequestNext ==
  \/ \E b \in BOOLEAN : _make_request(b)
  \/ \E o \in Outcomes : Attempt(o)
  \/ Sleep

SpecRequest == Start(0) /\ [][RequestNext]_vars

---------------------------------------------------------------------------
(* insert_candles on its own: batches inserted one after the other, any of *)
(* them a second time                                                      *)

InsertBatch(batch) ==
  /\ table' = [rows |-> INSERT_IGNORE(table.rows, batch), before |-> table.rows,
               last |-> batch, count |-> rowcount(table.rows, batch), twice |-> FALSE]
  /\ UNCHANGED <<now, queue, th, db, tx, faults, scheds, calls, fill, failedSince, okLast>>
  /\ UNCHANGED <<poolVars, sweep, req, hostVars>>

InsertAgain ==
  /\ table.last # <<>>
  /\ table' = [rows |-> INSERT_IGNORE(table.rows, table.last), before |-> table.rows,
               last |-> table.last, count |-> rowcount(table.rows, table.last),
               twice |-> TRUE]
  /\ UNCHANGED <<now, queue, th, db, tx, faults, scheds, calls, fill, failedSince, okLast>>
  /\ UNCHANGED <<poolVars, sweep, req, hostVars>>

InsertNext ==
  \/ \E b \in Batches : InsertBatch(b)
  \/ InsertAgain

SpecInsert == Start(0) /\ [][InsertNext]_vars

---------------------------------------------------------------------------
(* Properties *)

Cursor(view, p) == get_last_collected_time(view, p)
InRun(r) == th[r].pc \notin {"idle", "w_read", "w_except", "f_loop", "s_loop", "exited", "aborted"}
Returned(r) == th[r].pc = "ret"

(* C1: no row whose close_time is greater than or equal to the clock at    *)
(* filtering is passed to insert_candles; a row with close_time equal to   *)
(* the clock is dropped.                                                   *)
C1_OpenCandleExclusion ==
  \A r \in Runners : \A o \in th[r].cd : CloseTime(Interval(r), o) < th[r].fnow

(* C2: in every reachable state, a pair's last_collected_time, when set    *)
(* (stored and not 0, which the code reads as unset), is the open_time of  *)
(* a durably stored candle of the pair and is not greater than the largest *)
(* open_time durably stored for it.                                        *)
C2_CursorInvariant ==
  \A p \in Pairs :
    Truthy(Cursor(db, p)) =>
      /\ Val(Cursor(db, p)) \in db.candles[p]
      /\ Val(Cursor(db, p)) <= Max(db.candles[p])

(* C3: when a successful run returns, the stored last_collected_time is    *)
(* not less than it was when the previous successful run on the pair       *)
(* returned.                                                               *)
C3_CursorMonotone ==
  \A r \in Runners :
    (Returned(r) /\ th[r].result = "success") =>
      OrZero(Cursor(db, th[r].task)) >= okLast[th[r].task]

C5_FailureKeepsCursor ==
  \A r \in Runners :
    (Returned(r) /\ th[r].result = "error") =>
      OrZero(Cursor(db, th[r].task)) = OrZero(th[r].before)

(* C6: between runs, the cursor's error_count is the number of runs that   *)
(* returned a failure since the last run that persisted rows, and the      *)
(* status is error exactly when that number is not 0.                      *)
ErrorCount(view, p) ==
  IF view.control[p] = {} THEN 0 ELSE Val(view.control[p]).error_count
C6_ErrorBookkeeping ==
  \A p \in Pairs :
    (\A r \in Runners : th[r].task # p) =>
      /\ ErrorCount(db, p) = failedSince[p]
      /\ (db.control[p] # {} =>
            (Val(db.control[p]).status = "error" <=> failedSince[p] > 0))

(* C7: collect_single_symbol never raises: every call returns a result.    *)
C7_NeverRaises ==
  \A r \in Runners : th[r].result # "raised"

(* C8: every call of collect_single_symbol that returns has appended       *)
(* exactly one row to collection_logs.                                     *)
C8_OneEventPerCall ==
  \A r \in Runners :
    (Returned(r) /\ th[r].result # "raised") => db.logs[r] = 1

(* C9: at most one job per (symbol, interval) is queued or executing.      *)
InFlight(p) ==
  Cardinality({i \in 1..Len(queue) : queue[i] = p})
    + Cardinality({w \in Workers : th[w].task = p})
C9_OneInFlightPerPair ==
  \A p \in Pairs : InFlight(p) <= 1

(* C10: when two workers process A and B concurrently and the store        *)
(* rejects the candle write for A, B's run, if it succeeds with rows, ends *)
(* with those rows durably stored and B's cursor on their maximum          *)
(* open_time, and A's run ends with A's last_collected_time as it was.     *)
C10_FailureIsolation ==
  \A a \in Workers, b \in Workers :
    (/\ a # b
     /\ th[a].rej
     /\ InRun(b)
     /\ th[a].task # th[b].task) =>
      /\ (Returned(b) /\ th[b].result = "success" /\ th[b].cd # {}) =>
           /\ th[b].cd \subseteq db.candles[th[b].task]
           /\ Cursor(db, th[b].task) = Some(Max(th[b].cd))
      /\ Returned(a) => OrZero(Cursor(db, th[a].task)) = OrZero(th[a].before)

(* C11: in continuous mode with num_workers workers, the jobs being        *)
(* executed by the pool (the tasks a worker has taken and not finished)    *)
(* are never more than num_workers, however many tasks are queued.         *)
Executing == {w \in Workers : th[w].pc \notin {"idle", "exited", "aborted"}}
Put == 1..(scheds * Len(ActiveTokens))
Holders(k) == {w \in Workers : th[w].id = k}
WorkersEnded == \A w \in Workers : th[w].pc \in {"exited", "aborted"}

(* C12, as stated: every task placed on task_queue is dequeued by exactly  *)
(* one worker and executed exactly once: when the workers have ended, each *)
(* task that was put has been taken exactly once.                          *)
C12_ConsumedExactlyOnce ==
  WorkersEnded => \A k \in Put : taken[k] = 1

(* C12, amended: every task placed on task_queue is dequeued at most once  *)
(* and executed at most once, by the one worker that dequeued it; a task   *)
(* that has not been dequeued is still on the queue, once; the tasks on    *)
(* the queue when the workers end are never executed.                      *)
C12_ConsumedAtMostOnce ==
  \A k \in TaskIds :
    /\ taken[k] <= 1
    /\ Cardinality(Holders(k)) <= taken[k]
    /\ taken[k] = 1 => k \in Put
    /\ k \in Put => taken[k] + Cardinality({i \in 1..Len(qids) : qids[i] = k}) = 1

(* C12, its case: two rounds of tasks were put and each was taken once *)
C12_Witness ==
  /\ scheds >= 2
  /\ queue = <<>>
  /\ \A k \in Put : taken[k] = 1

(* C13: after a stop signal, the exit of the process included, every       *)
(* worker that is in the middle of a job finishes it before it ends: no    *)
(* worker is ended inside a job.                                           *)
C13_GracefulShutdown ==
  \A w \in Workers : th[w].pc # "aborted"

(* C14: when stop_continuous_collection declares the collection stopped,   *)
(* each worker has ended or has exceeded its join timeout, and every       *)
(* worker that exceeded it has a line of the log saying it was abandoned,  *)
(* and is not killed.                                                      *)
C14_DrainBeforeStopped ==
  ctl.pc \in {"stopped", "exit"} =>
    /\ \A w \in Workers : th[w].pc = "exited" \/ w \in ctl.abandoned
    /\ \A w \in ctl.abandoned :
         /\ \E i \in 1..Len(ctl.log) : ctl.log[i] = Logged("abandoned", w)
         /\ th[w].pc # "aborted"

(* C15: a failure on one symbol never halts a sweep: when                  *)
(* collect_all_tokens_single is over, by its return or by an exception,    *)
(* collect_single_symbol has been called for every active symbol.          *)
C15_SweepGoesOn ==
  sweep.status \in {"done", "raised"} =>
    sweep.called = {ActiveTokens[i] : i \in 1..Len(ActiveTokens)}

(* C16: whatever exception a job raises, the worker's handler catches it   *)
(* and the worker goes back to task_queue.get for the next task: a worker  *)
(* leaves its handler for the get, and no worker ends while no stop has    *)
(* been asked for.                                                         *)
C16_WorkerSurvives ==
  [][\A w \in Workers :
       /\ (th[w].pc = "w_except" /\ ~stop_event) => th'[w].pc \in {"w_except", "idle"}
       /\ th'[w].pc \in {"exited", "aborted"} => stop_event]_vars

(* C16, its case: a worker is in its handler with the exception of a job,  *)
(* and tasks wait on the queue                                             *)
C16_Witness ==
  \E w \in Workers : th[w].pc = "w_except" /\ queue # <<>>

(* C17: when fill_missing_data is over (its loop has ended, or an          *)
(* exception of collect_single_symbol has left it), it has issued          *)
(* ceil(window / (batch * INTERVAL_MS[interval])) calls, each starting     *)
(* where the one before ended, the first at now - N days and the last      *)
(* ending at now.                                                          *)
Ceil(a, b) == (a + b - 1) \div b
FillOver ==
  \/ th[Main].pc = "f_loop" /\ ~(fill.cur < fill.end)
  \/ th[Main].pc = "ret" /\ th[Main].kind = "fill" /\ th[Main].result = "raised"
C17_GapFillCompleteness ==
  FillOver =>
    /\ fill.n = Ceil(fill.end - fill.from, FillBatch * INTERVAL_MS(Interval(Main)))
    /\ fill.contiguous
    /\ fill.last_end = fill.end

(* C18: insert_candles never stores two rows with the same key and never   *)
(* changes or removes a row already stored (overlapping batches            *)
(* included), reports the number of rows it added, and, called a second    *)
(* time with the same batch, leaves the stored rows as they were and       *)
(* reports zero rows.                                                      *)
UniqueKeys(stored) == \A a \in stored, b \in stored : a[1] = b[1] => a = b
C18_IdempotentIngestion ==
  /\ UniqueKeys(table.rows)
  /\ table.before \subseteq table.rows
  /\ table.count = Cardinality(table.rows) - Cardinality(table.before)
  /\ table.twice => (table.rows = table.before /\ table.count = 0)

(* C18, its case: a batch of two rows was inserted a second time, one of   *)
(* its rows under a key stored with another content                        *)
C18_Witness ==
  /\ table.twice
  /\ Len(table.last) = 2
  /\ \E i \in 1..Len(table.last) : table.last[i] \notin table.rows

(* The errors of an attempt, as the specification of the upstream client   *)
(* classes them                                                            *)
Transient == {"timeout", "connection", "http_429", "http_5xx"}
Permanent == {"http_4xx", "decode"}

(* C19: a request whose attempt fails with a client error (4xx) or with a  *)
(* decode error makes no other attempt and does not sleep: the error is    *)
(* raised at once.                                                         *)
C19_PermanentNotRetried ==
  \A k \in 1..Len(req.tried) :
    req.tried[k] \in Permanent =>
      /\ k = Len(req.tried)
      /\ req.pc = "raised"
      /\ Len(req.slept) = k - 1

(* C20: a request makes at most max_retries attempts; it has slept         *)
(* retry_delay * k after its k-th failed attempt and before the next one,  *)
(* and not after its last; it returns at its first successful attempt;     *)
(* when its attempts all failed with a timeout, a connection error, 5xx    *)
(* or the rate limit, it raises after max_retries of them, and what it     *)
(* raises is the error of its last attempt.                                *)
C20_TransientRetry ==
  /\ Len(req.tried) <= max_retries
  /\ \A k \in 1..Len(req.slept) : req.slept[k] = retry_delay * k
  /\ Len(req.slept) = (IF req.pc \in {"sleep", "returned", "raised"}
                       THEN Len(req.tried) - 1 ELSE Len(req.tried))
  /\ \A k \in 1..Len(req.tried) :
       req.tried[k] = "ok" => (k = Len(req.tried) /\ req.pc = "returned")
  /\ req.pc = "returned" => req.tried[Len(req.tried)] = "ok"
  /\ (req.pc = "raised" /\ \A k \in 1..Len(req.tried) : req.tried[k] \in Transient) =>
       Len(req.tried) = max_retries
  /\ req.pc = "raised" => req.error = req.tried[Len(req.tried)]

(* C20, its case: max_retries attempts failed with transient errors, with  *)
(* the sleeps between them, and the last error was raised                  *)
C20_Witness ==
  /\ req.pc = "raised"
  /\ Len(req.tried) = max_retries
  /\ \A k \in 1..Len(req.tried) : req.tried[k] \in Transient
  /\ Len(req.slept) = max_retries - 1

(* C21: when the bulk insert of a job's batch is rejected, the rows of the  *)
(* batch the connection shows afterwards are those durably stored before,  *)
(* the rollback leaves the uncommitted writes of the other pairs' jobs as  *)
(* they were, and the failing job, when it returns, leaves the pair's      *)
(* last_collected_time as it was before the run.                           *)
C21_AllOrNothing ==
  [][\A a \in Workers :
       /\ (th[a].pc = "insert" /\ th'[a].rej) =>
            /\ th'[a].cd \cap tx'.candles[th[a].task] \subseteq db.candles[th[a].task]
            /\ \A p \in Pairs \ {th[a].task} :
                 /\ tx'.candles[p] = tx.candles[p]
                 /\ tx'.control[p] = tx.control[p]
       /\ (th[a].rej /\ th'[a].pc = "ret" /\ th'[a].result = "error") =>
            OrZero(Cursor(db', th[a].task)) = OrZero(th[a].before)]_vars

(* C22: a run whose upstream answer is empty returns (0, success) at once  *)
(* and writes nothing; a run whose rows are all dropped as open candles    *)
(* inserts nothing, skips the cursor update and, its event logged, returns *)
(* (0, success); in both, every step leaves the candles and the whole      *)
(* cursor row of every pair as they were, in the store and in the          *)
(* connection.                                                             *)
EmptyAnswer(r) ==
  /\ th[r].pc = "fetch"
  /\ get_klines(Interval(r), th[r].start, th[r].end, th[r].limit, now) = {}
AllOpen(r) ==
  /\ th[r].pc = "insert"
  /\ FilterClosed(Interval(r), th[r].kl, now) = {}
RowsKept ==
  /\ db'.candles = db.candles /\ db'.control = db.control
  /\ tx'.candles = tx.candles /\ tx'.control = tx.control
C22_EmptyIsNoOp ==
  [][\A r \in Runners :
       /\ (EmptyAnswer(r) /\ th'[r] # th[r] /\ faults' = faults) =>
            /\ th'[r].pc = "ret" /\ th'[r].result = "success" /\ th'[r].inserted = 0
            /\ RowsKept
       /\ (AllOpen(r) /\ th'[r] # th[r]) =>
            /\ th'[r].pc = "log" /\ th'[r].cd = {} /\ th'[r].inserted = 0
            /\ RowsKept
       /\ (th[r].pc \in {"log", "log_commit"} /\ th[r].cd = {}
             /\ th'[r] # th[r] /\ faults' = faults) =>
            /\ th'[r].pc \in {"log_commit", "ret"}
            /\ th'[r].pc = "ret" => (th'[r].result = "success" /\ th'[r].inserted = 0)
            /\ RowsKept]_vars

(* C22, its case: a run on a pair with a cursor row has had all its rows   *)
(* dropped as open candles and has returned (0, success), the row as it    *)
(* was before the run                                                      *)
C22_Witness ==
  \E r \in Runners :
    /\ Returned(r) /\ th[r].result = "success"
    /\ th[r].fnow > 0 /\ th[r].cd = {} /\ th[r].inserted = 0
    /\ db.control[th[r].task] # {}
    /\ Cursor(db, th[r].task) = th[r].before

(* C23: a successful run writes the cursor if and only if it persisted at  *)
(* least one row: a run that has written the cursor has inserted rows, a   *)
(* successful run that inserted rows has written it, with status active    *)
(* and error_count 0, and when all the rows of its batch were inserted by  *)
(* it, last_collected_time is their maximum open_time.                     *)
C23_AdvanceOnSuccess ==
  \A r \in Runners :
    /\ th[r].pc = "upd_commit" => th[r].inserted > 0
    /\ (Returned(r) /\ th[r].result = "success" /\ th[r].inserted > 0) =>
         /\ db.control[th[r].task] # {}
         /\ Val(db.control[th[r].task]).status = "active"
         /\ Val(db.control[th[r].task]).error_count = 0
         /\ th[r].inserted = Cardinality(th[r].cd) =>
              Cursor(db, th[r].task) = Some(Max(th[r].cd))

(* C24: a job for an interval that is not a key of INTERVAL_MS issues no   *)
(* request to the upstream and leaves the pair's cursor row as it was, no  *)
(* row created, whichever of the worker, the sweep and the direct call ran *)
(* it.                                                                     *)
C24_UnknownInterval ==
  [][\A r \in Runners :
       (th[r].task # NoTask /\ Interval(r) \notin KnownIntervals) =>
         /\ ~(th[r].pc = "fetch" /\ th'[r].pc # "fetch")
         /\ db'.control[th[r].task] = db.control[th[r].task]]_vars

(* C25: a call of collect_single_symbol with start_time and end_time both  *)
(* given and start_time >= end_time returns success with zero records,     *)
(* with no row persisted by it and the pair's last_collected_time as it    *)
(* was before the call.                                                    *)
Degenerate(r) ==
  /\ ~th[r].derived /\ th[r].start # None /\ th[r].end # None
  /\ Val(th[r].start) >= Val(th[r].end)
C25_DegenerateWindow ==
  \A r \in Runners :
    Degenerate(r) =>
      /\ th[r].pc \notin {"ins_commit", "upd", "upd_commit"}
      /\ Returned(r) =>
           /\ th[r].result = "success" /\ th[r].inserted = 0
           /\ Cursor(db, th[r].task) = th[r].before

(* C26: a job run without an explicit start for a pair with no cursor      *)
(* fetches from exactly the clock minus 30 days, in the worker, the sweep  *)
(* and the direct call alike.                                              *)
C26_FirstRunStart ==
  \A r \in Runners :
    (th[r].derived /\ th[r].L = None) => th[r].start = Some(th[r].rnow - ThirtyDays)

(* C27: collect_single_symbol is executed only by a worker thread, on a job *)
(* it has taken from task_queue: the main thread never executes a job, and *)
(* a sweep that is running or done has put one job per symbol it has       *)
(* passed on the queue.                                                    *)
C27_ControlOnlyEnqueues ==
  /\ ~InRun(Main)
  /\ \A w \in Workers : InRun(w) => (th[w].id \in Put /\ taken[th[w].id] = 1)
  /\ sweep.status \in {"running", "done"} =>
       Cardinality({k \in TaskIds : k \in Put}) >= sweep.i - 1

(* C28: when a sweep has ended, the error count it reports is the number   *)
(* of calls of collect_single_symbol that returned a failure, and the exit *)
(* status of the process is not 0 exactly when at least one call failed.   *)
C28_AggregateReport ==
  sweep.status = "done" =>
    /\ sweep.errors = sweep.failures
    /\ (exit_status(<<sweep.total_collected, sweep.errors>>) # 0 <=> sweep.failures > 0)

(* C29: every job registered by start_continuous_collection fires every 5  *)
(* minutes for an interval under one hour (1m, 3m, 5m, 15m, 30m), every 60 *)
(* minutes for 1h and 2h, every 60 or 240 minutes for the other intervals  *)
(* in hours and every 240 minutes for the intervals of a day and more.     *)
Cadences(interval) ==
  IF interval \in {"1m", "3m", "5m", "15m", "30m"} THEN {5}
  ELSE IF interval \in {"1h", "2h"} THEN {60}
  ELSE IF interval \in {"4h", "6h", "8h", "12h"} THEN {60, 240}
  ELSE {240}
C29_PollingCadence ==
  \A k \in 1..Len(jobs) :
    /\ jobs[k].every \in Cadences(jobs[k].interval)
    /\ jobs[k].unit = "minutes"

(* C30: once stop_event is set, every worker thread ends in the end and    *)
(* stop_continuous_collection returns; a worker waiting in get on a queue  *)
(* with no task to take ends at its next step, a worker in a job ends at   *)
(* the return of that job, and stop_continuous_collection makes one join   *)
(* per worker, each of them moving on to the next worker.                  *)
C30_ShutdownLiveness ==
  /\ stop_event ~> (ctl.pc = "stopped" /\ \A w \in Workers : th[w].pc = "exited")
  /\ [][\A w \in Workers :
          /\ (stop_event /\ th[w].pc = "idle" /\ th'[w] # th[w]
                /\ (queue = <<>> \/ Head(queue) = Sentinel)) => th'[w].pc = "exited"
          /\ (stop_event /\ th[w].pc = "ret" /\ th'[w] # th[w]) => th'[w].pc = "exited"
          /\ (ctl.pc = "join" /\ ctl' # ctl) =>
               \/ ctl'.pc = "join" /\ ctl'.i = ctl.i + 1 /\ ctl.i <= num_workers
               \/ ctl'.pc = "stopped" /\ ctl.i = num_workers + 1]_vars

(* C30, its case: stop_continuous_collection has returned and the workers  *)
(* have ended, one of them after the job it was in, a sentinel left on the *)
(* queue                                                                   *)
C30_Witness ==
  /\ ctl.pc = "stopped"
  /\ \A w \in Workers : th[w].pc = "exited"
  /\ \E i \in 1..Len(queue) : queue[i] = Sentinel
  /\ \E k \in Put : taken[k] = 1

(* C31: with no stop asked for, every task put on task_queue is taken by a *)
(* worker in the end (again and again, all the tasks put so far have been  *)
(* taken), and the job of a task a worker has taken runs to its return; a  *)
(* task is taken only when every task put before it has been taken.        *)
C31_QueueProgress ==
  /\ []<>(\A k \in Put : taken[k] = 1)
  /\ \A w \in Workers : (th[w].pc = "w_read") ~> (th[w].pc = "ret")
  /\ [][\A k \in TaskIds :
          taken'[k] > taken[k] => \A j \in 1..(k - 1) : taken[j] >= 1]_vars

(* C31, its case: two rounds of tasks were put, every one of them was      *)
(* taken and its job has returned                                          *)
C31_Witness ==
  /\ scheds >= 2
  /\ queue = <<>>
  /\ \A k \in Put : taken[k] = 1
  /\ WorkersIdle
  /\ \A p \in Symbols \X Intervals : db.candles[p] # {}

(* C32: fill_missing_data terminates, its window start strictly increases  *)
(* at every iteration, and it ends only when the window start has reached  *)
(* the end time taken at entry (no stop is asked for here).                *)
C32_FillEndsAtEnd ==
  /\ (fill # NoFill) ~> (fill = NoFill)
  /\ [][/\ (th[Main].pc = "ret" /\ th'[Main].pc = "f_loop") => fill'.cur > fill.cur
        /\ (fill # NoFill /\ fill' = NoFill) => ~(fill.cur < fill.end)]_vars

(* C32, what holds of it: fill_missing_data terminates; its window start   *)
(* strictly increases at every iteration, whether the window's job         *)
(* returned success or failure; it ends when the window start has reached  *)
(* the end time taken at entry, or when an exception leaves                *)
(* collect_single_symbol.                                                  *)
C32_FillTerminates ==
  /\ (fill # NoFill) ~> (fill = NoFill)
  /\ [][/\ (th[Main].pc = "ret" /\ th'[Main].pc = "f_loop") => fill'.cur > fill.cur
        /\ (fill # NoFill /\ fill' = NoFill) =>
             \/ ~(fill.cur < fill.end)
             \/ th[Main].pc = "ret" /\ th[Main].result = "raised"]_vars

(* C33: for every interval of INTERVAL_MS, '1M' included, the start        *)
(* derived from the cursor, last_collected_time + INTERVAL_MS[interval],   *)
(* is greater than the open_time of the last persisted candle and not      *)
(* greater than the open_time of the next candle of the series.            *)
C33_NoSkipNoRerequest ==
  cal.n > 0 => (cal.start > cal.last /\ cal.start <= cal.next)

(* C34: the event written for a window of fill_missing_data has the kind   *)
(* gap-fill, and the event written for any other job the kind single.      *)
C34_EventKind ==
  \A r \in Runners :
    th[r].pc \in {"log_commit", "e_log_commit"} =>
      collection_type(r) = IF th[r].kind = "fill" THEN "gap-fill" ELSE "single"

(* C35: for every pair, each closed candle the upstream holds with an      *)
(* open_time from the earliest stored open_time up to the cursor's         *)
(* last_collected_time is stored, whenever no job is in progress.          *)
C35_NoGapBehindCursor ==
  \A p \in Symbols \X Intervals :
    (WorkersIdle /\ th[Main].pc = "idle" /\ db.control[p] # {} /\ db.candles[p] # {}) =>
      \A o \in OpenTimes(p[2]) :
        ( /\ CloseTime(p[2], o) <= now
          /\ \E e \in db.candles[p] : e <= o
          /\ o <= Val(db.control[p]).last ) => o \in db.candles[p]

(* C36: the count a run of collect_single_symbol returns is the number of  *)
(* candle rows the run durably inserted; a run that returns (0, error)     *)
(* has inserted none.                                                      *)
C36_ReturnedCount ==
  \A r \in Runners :
    (th[r].pc = "ret" /\ th[r].result \in {"success", "error"}) =>
      th[r].inserted = th[r].rows

(* C37: a second call of stop_continuous_collection enqueues no sentinel,  *)
(* joins no thread and leaves the stop event set and worker_threads empty; *)
(* the sentinels ever enqueued are as many as the workers started.         *)
C37_StopIdempotent ==
  /\ [](ctl.puts <= num_workers)
  /\ [](ctl.pc \in {"stopped", "exit"} => ctl.puts = num_workers)
  /\ [](ctl.stops = 2 => (stop_event /\ ctl.worker_threads = <<>>))
  /\ [][(ctl'.stops = 2 /\ ctl' # ctl) =>
          /\ queue' = queue
          /\ ctl'.puts = ctl.puts
          /\ ctl'.i = 1
          /\ ctl'.abandoned = ctl.abandoned
          /\ stop_event']_vars

C37_Witness ==
  /\ ctl.stops = 2
  /\ ctl.pc = "stopped"
  /\ ctl.puts = num_workers
  /\ \E w \in Workers : th[w].pc \notin {"exited", "idle"}

====
